---- MODULE Spec2Model ----
(***************************************************************************)
(* Model of the Python SDK client (sma_sdk.py): the token pair of a        *)
(* client instance, the request/refresh/retry logic of _make_request and   *)
(* the public operations built on it.  The Python call stack is explicit   *)
(* (stack), an exception or a return value travelling to the caller is     *)
(* the register ret, and the server and the network are the environment:   *)
(* every call of session.request draws its outcome from Responses or ends  *)
(* in a RequestException.                                                  *)
(*                                                                         *)
(* Model of the backup cloud function (backup-function.py): the steps of   *)
(* backup_handler, the storage-triggered verify_backup, send_notification  *)
(* and cleanup_old_backups.  Cloud SQL, the bucket and Pub/Sub are the     *)
(* environment: every API call is accepted or raises, and an accepted      *)
(* export writes its file later, while the function goes on.               *)
(***************************************************************************)
EXTENDS Integers, Sequences, FiniteSets, TLC

(* ---------------------------- bounds ----------------------------------- *)
\* largest retry_attempts a configuration is built with
MaxRetryAttempts == 2
\* number of nested refresh_token() calls the interpreter allows before the
\* next call raises RecursionError
RecursionLimit == 2
\* timedelta(minutes=15) of login, register and refresh_token
ExpiryMinutes == 15
\* the client instances of the main specification
Clients == {1}
\* last second of the clock of the backup function
MaxClock == 1
\* largest BACKUP_RETENTION_COUNT the function is deployed with
MaxRetention == 2

(* ---------------------------- value domains ---------------------------- *)
NoneStr == "None"
Missing == "Missing"
\* access tokens a server hands out
ServerTokens == {"t1", "t2"}
\* refreshToken field of a login/register/refresh answer
ServerRefresh == {Missing, "r1"}
\* refreshToken field of a refresh answer: a new refresh token
RotatedRefresh == {"r2"}
\* AuthTokens objects a caller can build for set_tokens
CallerAccess == {"", "t1"}
CallerRefresh == {NoneStr, "r1"}
\* values datetime.now() can take, in minutes
Times == {0}

\* the configurations a client is constructed with
Configs ==
  {[retry_attempts |-> 0, retry_delay |-> 1, api_key |-> NoneStr],
   [retry_attempts |-> MaxRetryAttempts, retry_delay |-> 2, api_key |-> "k1"]}

Truthy(s) == s # NoneStr /\ s # Missing /\ s # ""

Bearer(t) == <<"Bearer", t>>
NoHeader == <<>>

(* the envelope's data field: absent, present but empty, or an object *)
(* shape: whether the object has the fields the operation's result type is
   built from (data["user"], the fields of Post, ...) *)
NoData == [kind |-> "missing", token |-> Missing, refreshToken |-> Missing, shape |-> "bad"]
EmptyData == [kind |-> "empty", token |-> Missing, refreshToken |-> Missing, shape |-> "bad"]
FullData ==
  [kind : {"full"}, token : ServerTokens, refreshToken : ServerRefresh, shape : {"ok"}]
  \cup [kind : {"full"}, token : {"t1"}, refreshToken : {Missing}, shape : {"bad"}]
DataVals == {NoData, EmptyData} \cup FullData

(* the envelope's error field *)
NoError == [code |-> Missing, retryable |-> Missing]
ErrorVals ==
  [code : {Missing, "VALIDATION_ERROR"}, retryable : {Missing, "true"}]
  \cup {[code |-> "VALIDATION_ERROR", retryable |-> "false"]}
\* the error field of the 401 answers
AuthErrorVals == {[code |-> "TOKEN_EXPIRED", retryable |-> Missing]}

(* what session.request returns: status, whether the body is JSON, and the
   envelope in the body.  Statuses 429/5xx never come back as a response:
   the mounted Retry adapter turns them into a RequestException. *)
OkResponses ==
  [status : {200}, json : {TRUE}, success : {TRUE}, data : DataVals, error : {NoError}]
  \cup [status : {200}, json : {TRUE}, success : {FALSE}, data : {NoData}, error : ErrorVals]
  \cup [status : {200}, json : {TRUE}, success : {FALSE}, data : {EmptyData}, error : {NoError}]
  \cup [status : {200}, json : {FALSE}, success : {FALSE}, data : {NoData}, error : {NoError}]
ErrResponses ==
  [status : {400}, json : {TRUE}, success : {FALSE}, data : {NoData}, error : ErrorVals]
  \cup [status : {401}, json : {TRUE}, success : {FALSE}, data : {NoData}, error : AuthErrorVals]
  \cup [status : {400}, json : {FALSE}, success : {FALSE}, data : {NoData}, error : {NoError}]
Responses == OkResponses \cup ErrResponses
\* the answers of POST /auth/refresh
RefreshResponses ==
  [status : {200}, json : {TRUE}, success : {TRUE},
   data : [kind : {"full"}, token : ServerTokens, refreshToken : RotatedRefresh, shape : {"ok"}]
          \cup {NoData},
   error : {NoError}]
  \cup [status : {200}, json : {TRUE}, success : {FALSE}, data : {NoData}, error : {NoError}]
  \cup [status : {400, 401}, json : {TRUE}, success : {FALSE}, data : {NoData}, error : {NoError}]
\* line 205: the statuses the mounted Retry adapter does not hand back as a
\* response: when its retries are used up it raises RetryError, a
\* RequestException
StatusForcelist == {429, 500, 502, 503, 504}
\* the statuses of that list a server answers with
ServerErrorStatuses == {429, 503}
\* why session.request raised a RequestException: no response at all (0:
\* connection error or timeout), or responses with a status of the list only
FailureCauses == {0} \cup (ServerErrorStatuses \cap StatusForcelist)
ResponsesOf(ep) == IF ep = <<"POST", "/auth/refresh">> THEN RefreshResponses ELSE Responses
NoResponse == [status |-> 0, json |-> FALSE, success |-> FALSE, data |-> NoData, error |-> NoError]

(* ---------------------------- state ------------------------------------ *)
VARIABLES
  config,     \* SMAConfig of the clients: retry_attempts, retry_delay, api_key
  tokens,     \* tokens[c]: self.tokens, a reference to an AuthTokens object or 0 (None)
  heap,       \* the AuthTokens objects: heap[o].access_token, .refresh_token, .expires_at
  stack,      \* the call stack, innermost frame last
  ret,        \* what the frame that just finished hands to its caller
  cur,        \* the public operation in progress or last finished
  lastMR,     \* history: the finished _make_request frame of the operation's own request
  lastCall,   \* history: the last call of session.request
  nrefresh,   \* history: requests to /auth/refresh issued in this operation
  refreshed,  \* history: data.token of the last successful refresh answer
  staleTok,   \* history: staleTok[c]: access token held when a refresh of c last failed
  loginTok    \* history: loginTok[c]: token installed by login/register, until the pair changes

\* the state of the SDK clients
sdk == <<config, tokens, heap, stack, ret, cur, lastMR, lastCall, nrefresh, refreshed,
         staleTok, loginTok>>

\* the backup function, its bucket and its Cloud SQL instance
VARIABLES
  clock,          \* datetime.now(timezone.utc), in seconds
  bucket,         \* the blobs of BACKUP_BUCKET: name and, of an exported file,
                  \* the attributes the function reads: time_created, size
  exports,        \* uris of the export operations Cloud SQL has accepted and not finished
  hpc,            \* backup_handler: the statement it is at
  backup_id,      \* backup_handler: backup_id
  steps,          \* history: the steps this run of backup_handler has executed, each
                  \* with the exception it raised ('' when it returned)
  pending,        \* history: the export of this run was in progress when the file was checked
  result,         \* history: what the run of backup_handler that just ended returned or raised
  notifications,  \* history: the send_notification calls of this run of backup_handler
  cleaned         \* history: set by the step of cleanup_old_backups (its retention count,
                  \* whether it raised, how much it deleted), reset by every other

backup == <<clock, bucket, exports, hpc, backup_id, steps, pending, result,
            notifications, cleaned>>

vars == <<sdk, backup>>

hist == <<lastMR, lastCall, nrefresh, refreshed, staleTok, loginTok>>

NoObj == [access_token |-> NoneStr, refresh_token |-> NoneStr, expires_at |-> 0]

NoRet == [kind |-> "none"]
\* response_data, the parsed body: the envelope
NoResponseData == [success |-> FALSE, data |-> NoData, error |-> NoError]
RetNone == [kind |-> "value", data |-> NoResponseData, obj |-> 0]
RetValue(d) == [kind |-> "value", data |-> d, obj |-> 0]
RetObj(o) == [kind |-> "value", data |-> NoResponseData, obj |-> o]
\* an SMAError: code, status_code, retryable
SMAError(code, status, retryable) ==
  [kind |-> "exc", type |-> "SMAError", code |-> code, status_code |-> status,
   retryable |-> retryable]
\* any other exception (RecursionError, AttributeError, KeyError)
OtherError(type) ==
  [kind |-> "exc", type |-> type, code |-> Missing, status_code |-> 0, retryable |-> FALSE]

NoCall == [c |-> 0, ep |-> <<>>, auth |-> NoHeader, key |-> NoneStr, rid |-> <<>>, reissue |-> FALSE]
NoHeaders == [auth |-> NoHeader, key |-> NoneStr, rid |-> <<>>]

Frame(fn, c, pc, ep) ==
  [fn |-> fn, c |-> c, pc |-> pc, ep |-> ep, retry_count |-> 0, headers |-> NoHeaders,
   response |-> NoResponse, final |-> NoResponse, result |-> NoRet,
   \* history of this invocation of _make_request
   nsent |-> 0, sleeps |-> <<>>, failedStatus |-> 0, nrefreshCalls |-> 0, nreissue |-> 0,
   refreshOk |-> FALSE, refreshFailed |-> FALSE, hadTokens |-> FALSE, newToken |-> Missing,
   \* history of login and register: the token pair of the client when it was called
   before |-> NoObj]
NoFrame == Frame("", 0, "", "")

Top == stack[Len(stack)]
Idle == stack = <<>>
Push(f) == Append(stack, f)
Pop == SubSeq(stack, 1, Len(stack) - 1)
SetTop(f) == [stack EXCEPT ![Len(stack)] = f]

\* number of refresh_token frames on the stack
RECURSIVE Depth(_)
Depth(s) ==
  IF s = <<>> THEN 0
  ELSE (IF s[Len(s)].fn = "refresh_token" THEN 1 ELSE 0) + Depth(SubSeq(s, 1, Len(s) - 1))

RECURSIVE Pow2(_)
Pow2(n) == IF n = 0 THEN 1 ELSE 2 * Pow2(n - 1)

(* ---------------------------- the backup function: values ------------- *)
\* os.environ.get('ENVIRONMENT')
ENVIRONMENT == "prod"
\* os.environ.get('NOTIFICATION_TOPIC', ''): not configured, or a topic
Topics == {"", "backup-alerts"}

NoResult == [status |-> "", backup_id |-> <<>>, exc |-> ""]
NoCleanup == [ran |-> FALSE, retention_count |-> 0, raised |-> FALSE, deleted |-> 0]

\* the backup function before its first invocation, on an empty bucket
BackupOff ==
  /\ clock = 0
  /\ bucket = {}
  /\ exports = {}
  /\ hpc = "idle"
  /\ backup_id = <<>>
  /\ steps = <<>>
  /\ pending = FALSE
  /\ result = NoResult
  /\ notifications = <<>>
  /\ cleaned = NoCleanup

Init ==
  /\ config \in Configs
  /\ tokens = [c \in Clients |-> 0]
  /\ heap = [o \in Clients |-> NoObj]
  /\ stack = <<>>
  /\ ret = NoRet
  /\ cur = [op |-> "", c |-> 0]
  /\ lastMR = NoFrame
  /\ lastCall = NoCall
  /\ nrefresh = 0
  /\ refreshed = Missing
  /\ staleTok = [c \in Clients |-> Missing]
  /\ loginTok = [c \in Clients |-> Missing]
  /\ BackupOff

(* ---------------------------- the token pair --------------------------- *)
HasTokens(c) == tokens[c] # 0

\* the token pair client d uses: the fields of the object self.tokens refers to
TokensOf(d) == IF HasTokens(d) THEN heap[tokens[d]] ELSE NoObj

\* an AuthTokens object no client refers to any more is dropped
Collect(t, h) ==
  [o \in DOMAIN h |-> IF \E d \in DOMAIN t : t[d] = o THEN h[o] ELSE NoObj]

\* the object a new AuthTokens(...) of client c gets: the first one that no
\* other client refers to
NewObj(c) ==
  CHOOSE o \in DOMAIN heap :
    /\ \A d \in DOMAIN tokens \ {c} : tokens[d] # o
    /\ \A p \in DOMAIN heap :
         (\A d \in DOMAIN tokens \ {c} : tokens[d] # p) => o <= p

\* mutant of ClearTokens: the tokens are left in place
ClearTokens_Keep(c) == UNCHANGED <<tokens, heap, loginTok>>

\* self.tokens = None
ClearTokens(c) ==
  /\ tokens' = [tokens EXCEPT ![c] = 0]
  /\ heap' = Collect(tokens', heap)
  /\ loginTok' = [loginTok EXCEPT ![c] = Missing]

(* ---------------------------- _make_request ---------------------------- *)
AccessToken(c) == heap[tokens[c]].access_token
RefreshToken(c) == heap[tokens[c]].refresh_token

\* mutant of BuildHeaders: the API key is preferred to the bearer token
BuildHeaders_KeyFirst(c, rid) ==
  IF Truthy(config.api_key)
  THEN [auth |-> NoHeader, key |-> config.api_key, rid |-> rid]
  ELSE IF HasTokens(c) /\ Truthy(heap[tokens[c]].access_token)
       THEN [auth |-> Bearer(heap[tokens[c]].access_token), key |-> NoneStr, rid |-> rid]
       ELSE [auth |-> NoHeader, key |-> NoneStr, rid |-> rid]

\* lines 220-222: _generate_request_id returns a fresh identifier on every
\* invocation; within one operation the invocation is identified by the depth
\* of the stack and the retry_count of the _make_request call it is made in
RequestId(depth, retry_count) == <<depth, retry_count>>

\* lines 250-259: the X-Request-ID and the authentication headers
BuildHeaders(c, rid) ==
  IF HasTokens(c) /\ Truthy(AccessToken(c))
  THEN [auth |-> Bearer(AccessToken(c)), key |-> NoneStr, rid |-> rid]
  ELSE IF Truthy(config.api_key)
       THEN [auth |-> NoHeader, key |-> config.api_key, rid |-> rid]
       ELSE [auth |-> NoHeader, key |-> NoneStr, rid |-> rid]

\* mutant of ReissueHeaders: the re-issued request keeps the headers it had
ReissueHeaders_Stale(h, c) == h

\* line 288: headers["Authorization"] = f"Bearer {self.tokens.access_token}"
ReissueHeaders(h, c) == [h EXCEPT !.auth = Bearer(AccessToken(c))]

\* lines 301-305: response.json(), or the synthesized failure payload
ParseBody(r) ==
  IF r.json
  THEN [success |-> r.success, data |-> r.data, error |-> r.error]
  ELSE [success |-> FALSE, data |-> NoData, error |-> NoError]

\* response.ok
Ok(r) == r.status < 400

\* mutant of MapError: the error payload of the response is ignored
MapError_Generic(r) == SMAError("HTTP_ERROR", r.status, FALSE)

\* lines 309-318: the SMAError mapped from a failure response
MapError(r) ==
  LET e == ParseBody(r).error
  IN SMAError(IF e.code = Missing THEN "HTTP_ERROR" ELSE e.code,
              r.status,
              e.retryable = "true")

\* lines 301-320: what _make_request hands back for the response it ends with
Outcome(r) == IF Ok(r) THEN RetValue(ParseBody(r)) ELSE MapError(r)

\* line 284: the condition of the refresh-and-retry
TokenExpired(r, c) == r.status = 401 /\ HasTokens(c) /\ Truthy(RefreshToken(c))

\* mutant of MayRetry: one retry too many
MayRetry_OffByOne(retry_count) == retry_count <= config.retry_attempts

\* line 324: the condition of a backoff retry
MayRetry(retry_count) == retry_count < config.retry_attempts

\* mutant of Delay: a fixed delay
Delay_Constant(retry_count) == config.retry_delay

\* line 325: the backoff delay
Delay(retry_count) == config.retry_delay * Pow2(retry_count)

Call(c, ep, h, re) ==
  [c |-> c, ep |-> ep, auth |-> h.auth, key |-> h.key, rid |-> h.rid, reissue |-> re]

\* the frame f ends with result res: it is popped and res goes to the caller
\* (lastMR keeps the frame of the operation's own request)
Finish(f, res) ==
  /\ stack' = Pop
  /\ ret' = res
  /\ lastMR' = IF Len(stack) = 2 THEN [f EXCEPT !.pc = "done", !.result = res]
                ELSE lastMR

\* lines 248-286 and 301-335 of _make_request: the request is sent; a 401 with
\* a refresh token calls refresh_token(); any other response is parsed and
\* returned or raised; a RequestException sleeps and retries, or raises
\* NETWORK_ERROR.  The recursive call of line 329 is a tail call: the frame is
\* reused with retry_count + 1.
MakeRequest ==
  /\ ~Idle
  /\ Top.fn = "_make_request"
  /\ Top.pc = "send"
  /\ LET f0 == Top
         c == f0.c
         h == BuildHeaders(c, RequestId(Len(stack), f0.retry_count))
         f == [f0 EXCEPT !.headers = h, !.nsent = @ + 1, !.failedStatus = 0]
     IN /\ lastCall' = Call(c, f.ep, h, FALSE)
        /\ nrefresh' = IF f.ep[2] = "/auth/refresh" /\ f.retry_count = 0
                       THEN nrefresh + 1 ELSE nrefresh
        /\ \/ \E r \in ResponsesOf(f.ep) :
                IF TokenExpired(r, c)
                THEN IF Depth(stack) < RecursionLimit
                     THEN \* line 286: self.refresh_token()
                          /\ stack' = Append(SetTop([f EXCEPT !.pc = "refreshing", !.response = r,
                                                             !.nrefreshCalls = @ + 1,
                                                             !.hadTokens = TRUE]),
                                             Frame("refresh_token", c, "begin", <<>>))
                          /\ UNCHANGED <<tokens, heap, ret, lastMR, loginTok>>
                     ELSE \* the call raises RecursionError: lines 297-299, then 301-318
                          /\ ClearTokens(c)
                          /\ Finish([f EXCEPT !.response = r, !.final = r,
                                             !.nrefreshCalls = @ + 1, !.hadTokens = TRUE,
                                             !.refreshFailed = TRUE], Outcome(r))
                ELSE /\ Finish([f EXCEPT !.final = r], Outcome(r))
                     /\ UNCHANGED <<tokens, heap, loginTok>>
           \/ \* requests.exceptions.RequestException: lines 322-335
              \E cause \in FailureCauses :
                IF MayRetry(f.retry_count)
                THEN /\ stack' = SetTop([f EXCEPT !.retry_count = @ + 1,
                                                  !.sleeps = Append(@, Delay(f.retry_count)),
                                                  !.failedStatus = cause])
                     /\ UNCHANGED <<tokens, heap, ret, lastMR, loginTok>>
                ELSE /\ Finish([f EXCEPT !.failedStatus = cause],
                               SMAError("NETWORK_ERROR", 0, TRUE))
                     /\ UNCHANGED <<tokens, heap, loginTok>>
  /\ UNCHANGED <<backup, config, cur, refreshed, staleTok>>

\* lines 287-299 and 301-320 of _make_request, once refresh_token() has
\* returned or raised: the request is re-issued with the new token, or the
\* tokens are cleared; then the response the frame holds is parsed and returned
\* or raised.  A RequestException of the re-issued request is caught by the
\* except Exception of line 297 as well.
MakeRequestAfterRefresh ==
  /\ ~Idle
  /\ Top.fn = "_make_request"
  /\ Top.pc = "refreshing"
  /\ ret # NoRet
  /\ LET f == Top
         c == f.c
     IN IF ret.kind = "value" /\ HasTokens(c)
        THEN LET h == ReissueHeaders(f.headers, c)
                 g == [f EXCEPT !.headers = h, !.refreshOk = TRUE, !.nreissue = @ + 1,
                                !.newToken = refreshed]
             IN /\ lastCall' = Call(c, f.ep, h, TRUE)
                /\ \/ \E r \in ResponsesOf(f.ep) :
                        /\ Finish([g EXCEPT !.final = r], Outcome(r))
                        /\ UNCHANGED <<tokens, heap, loginTok>>
                   \/ \* RequestException of the re-issued request: lines 297-299
                      /\ ClearTokens(c)
                      /\ Finish([g EXCEPT !.final = f.response], Outcome(f.response))
        ELSE \* refresh_token() raised: lines 297-299
             /\ ClearTokens(c)
             /\ Finish([f EXCEPT !.refreshFailed = TRUE, !.final = f.response],
                       Outcome(f.response))
             /\ UNCHANGED lastCall
  /\ UNCHANGED <<backup, config, cur, nrefresh, refreshed, staleTok>>

(* ---------------------------- refresh_token ---------------------------- *)
\* lines 418-423 of refresh_token: without a refresh token NO_REFRESH_TOKEN is
\* raised, otherwise POST /auth/refresh is requested
RefreshTokenBegin ==
  /\ ~Idle
  /\ Top.fn = "refresh_token"
  /\ Top.pc = "begin"
  /\ LET f == Top
         c == f.c
     IN IF ~HasTokens(c) \/ ~Truthy(RefreshToken(c))
        THEN /\ stack' = Pop
             /\ ret' = SMAError("NO_REFRESH_TOKEN", 0, FALSE)
        ELSE /\ stack' = Append(SetTop([f EXCEPT !.pc = "await"]),
                                Frame("_make_request", c, "send", <<"POST", "/auth/refresh">>))
             /\ ret' = NoRet
  /\ UNCHANGED <<backup, config, tokens, heap, cur, hist>>

\* the envelope test `not response.get("success") or not response.get("data")`
EnvelopeFailed(d) == ~d.success \/ d.data.kind # "full"

\* mutant of RefreshedTokens: the refresh token of the answer is stored as well
RefreshedTokens_Rotate(obj, d, now) ==
  [obj EXCEPT !.access_token = d.token, !.refresh_token = d.refreshToken,
              !.expires_at = now + ExpiryMinutes]

\* lines 428-429: the AuthTokens object after a successful refresh answered
\* with data d at time now
RefreshedTokens(obj, d, now) ==
  [obj EXCEPT !.access_token = d.token, !.expires_at = now + ExpiryMinutes]

\* lines 425-431 of refresh_token: an exception of the request propagates, a
\* failed envelope raises TOKEN_REFRESH_FAILED, otherwise the access token and
\* the expiry of the AuthTokens object are overwritten in place
RefreshTokenFinish ==
  /\ ~Idle
  /\ Top.fn = "refresh_token"
  /\ Top.pc = "await"
  /\ ret # NoRet
  /\ LET c == Top.c
     IN /\ stack' = Pop
        /\ IF ret.kind = "exc"
           THEN /\ ret' = ret
                /\ staleTok' = [staleTok EXCEPT ![c] =
                                  IF HasTokens(c) THEN AccessToken(c) ELSE @]
                /\ UNCHANGED <<heap, refreshed, loginTok>>
           ELSE IF EnvelopeFailed(ret.data)
           THEN /\ ret' = SMAError("TOKEN_REFRESH_FAILED", 0, FALSE)
                /\ staleTok' = [staleTok EXCEPT ![c] =
                                  IF HasTokens(c) THEN AccessToken(c) ELSE @]
                /\ UNCHANGED <<heap, refreshed, loginTok>>
           ELSE IF ~HasTokens(c)
           THEN /\ ret' = OtherError("AttributeError")
                /\ UNCHANGED <<heap, refreshed, loginTok, staleTok>>
           ELSE \E now \in Times :
                  /\ heap' = [heap EXCEPT ![tokens[c]] =
                                RefreshedTokens(@, ret.data.data, now)]
                  /\ ret' = RetObj(tokens[c])
                  /\ refreshed' = ret.data.data.token
                  /\ staleTok' = [staleTok EXCEPT ![c] = Missing]
                  /\ loginTok' = [loginTok EXCEPT ![c] = Missing]
  /\ UNCHANGED <<backup, config, tokens, cur, lastMR, lastCall, nrefresh>>

(* ---------------------------- public operations ------------------------ *)
\* a public operation is entered: its frame waits for its _make_request call
Enter(c, op, ep) ==
  /\ Idle
  /\ cur' = [op |-> op, c |-> c]
  /\ stack' = <<[Frame(op, c, "await", <<>>) EXCEPT
                   !.before = IF op \in {"login", "register"} THEN TokensOf(c) ELSE @],
                Frame("_make_request", c, "send", ep)>>
  /\ ret' = NoRet
  /\ lastMR' = NoFrame
  /\ lastCall' = NoCall
  /\ nrefresh' = 0
  /\ refreshed' = Missing
  /\ UNCHANGED <<backup, config, tokens, heap, staleTok, loginTok>>

\* the _make_request call of operation op of client c has returned or raised
Back(c, op) ==
  /\ ~Idle
  /\ Top.fn = op
  /\ Top.c = c
  /\ ret # NoRet
  /\ stack' = Pop

\* the operations that test only `not response.get("success")`
SuccessOnlyOps == {"get_posts", "delete_post", "disconnect_platform"}

\* the operations that build a typed record from response["data"]
TypedOps == {"get_post", "create_post", "update_post", "get_analytics",
             "connect_platform", "get_current_user"}

\* the operations that return None
VoidOps == {"delete_post", "disconnect_platform"}

\* mutant of OpFailed: every operation tests success only
OpFailed_SuccessOnly(op, d) == ~d.success

\* the envelope test of operation op on response_data d
OpFailed(op, d) == IF op \in SuccessOnlyOps THEN ~d.success ELSE EnvelopeFailed(d)

\* an operation that sends one request and maps the envelope: the exception of
\* _make_request propagates, a failed envelope raises the operation's code,
\* otherwise the data (or the record built from it) is returned
Operation(c, op, ep, code) ==
  \/ Enter(c, op, ep)
  \/ /\ Back(c, op)
     /\ ret' = IF ret.kind = "exc" THEN ret
               ELSE IF OpFailed(op, ret.data) THEN SMAError(code, 0, FALSE)
               ELSE IF op \in TypedOps /\ ret.data.data.shape = "bad"
                    THEN OtherError("TypeError")
               ELSE IF op \in VoidOps THEN RetNone
               ELSE ret
     /\ UNCHANGED <<backup, config, tokens, heap, cur, hist>>

\* lines 357-370 and 393-406: login and register install a new AuthTokens
\* object before the User record is built
Authenticate(c, op, ep, code) ==
  \/ Enter(c, op, ep)
  \/ /\ Back(c, op)
     /\ IF ret.kind = "exc"
        THEN /\ ret' = ret
             /\ UNCHANGED <<tokens, heap, staleTok, loginTok>>
        ELSE IF OpFailed(op, ret.data)
        THEN /\ ret' = SMAError(code, 0, FALSE)
             /\ UNCHANGED <<tokens, heap, staleTok, loginTok>>
        ELSE \E now \in Times :
               LET d == ret.data.data
                   o == NewObj(c)
                   obj == [access_token |-> d.token,
                           refresh_token |-> IF d.refreshToken = Missing THEN NoneStr
                                             ELSE d.refreshToken,
                           expires_at |-> now + ExpiryMinutes]
               IN /\ tokens' = [tokens EXCEPT ![c] = o]
                  /\ heap' = Collect(tokens', [heap EXCEPT ![o] = obj])
                  /\ staleTok' = [staleTok EXCEPT ![c] = Missing]
                  /\ loginTok' = [loginTok EXCEPT ![c] =
                                    IF d.shape = "ok" THEN d.token ELSE Missing]
                  /\ ret' = IF d.shape = "ok" THEN RetObj(o) ELSE OtherError("TypeError")
     /\ UNCHANGED <<backup, config, cur, lastMR, lastCall, nrefresh, refreshed>>

login(c) == Authenticate(c, "login", <<"POST", "/auth/login">>, "LOGIN_FAILED")

register(c) == Authenticate(c, "register", <<"POST", "/auth/register">>, "REGISTRATION_FAILED")

\* refresh_token() called by the user: the same code as the call of line 286
refresh_token(c) ==
  /\ Idle
  /\ cur' = [op |-> "refresh_token", c |-> c]
  /\ stack' = <<Frame("refresh_token", c, "begin", <<>>)>>
  /\ ret' = NoRet
  /\ lastMR' = NoFrame
  /\ lastCall' = NoCall
  /\ nrefresh' = 0
  /\ refreshed' = Missing
  /\ UNCHANGED <<backup, config, tokens, heap, staleTok, loginTok>>

\* lines 433-435: the caller's AuthTokens object is stored by reference; the
\* caller passes one it built, or the one another client holds
set_tokens(c) ==
  /\ Idle
  /\ \E src \in {0} \cup ({tokens[d] : d \in DOMAIN tokens \ {c}} \ {0, tokens[c]}) :
       IF src = 0
       THEN \E a \in CallerAccess, r \in CallerRefresh :
              /\ tokens' = [tokens EXCEPT ![c] = NewObj(c)]
              /\ heap' = Collect(tokens', [heap EXCEPT ![NewObj(c)] =
                            [access_token |-> a, refresh_token |-> r, expires_at |-> 0]])
       ELSE /\ tokens' = [tokens EXCEPT ![c] = src]
            /\ heap' = Collect(tokens', heap)
  /\ cur' = [op |-> "set_tokens", c |-> c]
  /\ ret' = RetNone
  /\ lastMR' = NoFrame
  /\ lastCall' = NoCall
  /\ nrefresh' = 0
  /\ refreshed' = Missing
  /\ staleTok' = [staleTok EXCEPT ![c] = Missing]
  /\ loginTok' = [loginTok EXCEPT ![c] = Missing]
  /\ UNCHANGED <<backup, config, stack>>

\* mutant of LogoutResult: the exception of the request is swallowed
LogoutResult_Swallow(res) == RetNone

\* what logout hands to its caller for the result res of its request: the
\* try has no except clause, so an exception goes on after the finally
LogoutResult(res) == IF res.kind = "exc" THEN res ELSE RetNone

\* mutant of LogoutClears: the tokens are cleared only after a successful request
LogoutClears_OnSuccess(res) == res.kind = "value"

\* whether logout clears the tokens for the result res of its request: the
\* assignment is in the finally clause
LogoutClears(res) == TRUE

\* lines 437-442
logout(c) ==
  \/ Enter(c, "logout", <<"POST", "/auth/logout">>)
  \/ /\ Back(c, "logout")
     /\ ret' = LogoutResult(ret)
     /\ IF LogoutClears(ret)
        THEN ClearTokens(c)
        ELSE UNCHANGED <<tokens, heap, loginTok>>
     /\ UNCHANGED <<backup, config, cur, lastMR, lastCall, nrefresh, refreshed, staleTok>>

get_posts(c) == Operation(c, "get_posts", <<"GET", "/posts">>, "POSTS_FETCH_FAILED")

get_post(c) == Operation(c, "get_post", <<"GET", "/posts/{id}">>, "POST_NOT_FOUND")

create_post(c) == Operation(c, "create_post", <<"POST", "/posts">>, "POST_CREATION_FAILED")

update_post(c) == Operation(c, "update_post", <<"PUT", "/posts/{id}">>, "POST_UPDATE_FAILED")

delete_post(c) == Operation(c, "delete_post", <<"DELETE", "/posts/{id}">>, "POST_DELETION_FAILED")

publish_post(c) ==
  Operation(c, "publish_post", <<"POST", "/posts/{id}/publish">>, "POST_PUBLISH_FAILED")

create_bulk_posts(c) ==
  Operation(c, "create_bulk_posts", <<"POST", "/posts/bulk">>, "BULK_POST_CREATION_FAILED")

get_analytics(c) ==
  Operation(c, "get_analytics", <<"GET", "/posts/analytics">>, "ANALYTICS_FETCH_FAILED")

connect_platform(c) ==
  Operation(c, "connect_platform", <<"POST", "/oauth/connect/{platform}">>,
            "PLATFORM_CONNECTION_FAILED")

disconnect_platform(c) ==
  Operation(c, "disconnect_platform", <<"DELETE", "/oauth/disconnect/{platform}">>,
            "PLATFORM_DISCONNECTION_FAILED")

check_health(c) == Operation(c, "check_health", <<"GET", "/health">>, "HEALTH_CHECK_FAILED")

get_current_user(c) == Operation(c, "get_current_user", <<"GET", "/auth/me">>, "USER_INFO_FAILED")

Next ==
  \/ MakeRequest
  \/ MakeRequestAfterRefresh
  \/ RefreshTokenBegin
  \/ RefreshTokenFinish
  \/ \E c \in DOMAIN tokens : login(c)
  \/ \E c \in DOMAIN tokens : register(c)
  \/ \E c \in DOMAIN tokens : refresh_token(c)
  \/ \E c \in DOMAIN tokens : set_tokens(c)
  \/ \E c \in DOMAIN tokens : logout(c)
  \/ \E c \in DOMAIN tokens : get_posts(c)
  \/ \E c \in DOMAIN tokens : get_post(c)
  \/ \E c \in DOMAIN tokens : create_post(c)
  \/ \E c \in DOMAIN tokens : update_post(c)
  \/ \E c \in DOMAIN tokens : delete_post(c)
  \/ \E c \in DOMAIN tokens : publish_post(c)
  \/ \E c \in DOMAIN tokens : create_bulk_posts(c)
  \/ \E c \in DOMAIN tokens : get_analytics(c)
  \/ \E c \in DOMAIN tokens : connect_platform(c)
  \/ \E c \in DOMAIN tokens : disconnect_platform(c)
  \/ \E c \in DOMAIN tokens : check_health(c)
  \/ \E c \in DOMAIN tokens : get_current_user(c)

Spec == Init /\ [][Next]_vars

(* ---------------------------- two clients ------------------------------ *)
\* two client instances of one program; an AuthTokens object one of them holds
\* (the "tokens" entry of its login result) can be handed to set_tokens of the
\* other.  Both are built without API key and without backoff retries.
TwoClients == {1, 2}

InitTwo ==
  /\ config = [retry_attempts |-> 0, retry_delay |-> 1, api_key |-> NoneStr]
  /\ tokens = [c \in TwoClients |-> 0]
  /\ heap = [o \in TwoClients |-> NoObj]
  /\ stack = <<>>
  /\ ret = NoRet
  /\ cur = [op |-> "", c |-> 0]
  /\ lastMR = NoFrame
  /\ lastCall = NoCall
  /\ nrefresh = 0
  /\ refreshed = Missing
  /\ staleTok = [c \in TwoClients |-> Missing]
  /\ loginTok = [c \in TwoClients |-> Missing]
  /\ BackupOff

\* the program uses login, refresh_token, set_tokens, logout and get_posts
NextTwo ==
  \/ MakeRequest
  \/ MakeRequestAfterRefresh
  \/ RefreshTokenBegin
  \/ RefreshTokenFinish
  \/ \E c \in DOMAIN tokens : login(c)
  \/ \E c \in DOMAIN tokens : refresh_token(c)
  \/ \E c \in DOMAIN tokens : set_tokens(c)
  \/ \E c \in DOMAIN tokens : logout(c)
  \/ \E c \in DOMAIN tokens : get_posts(c)

SpecTwo == InitTwo /\ [][NextTwo]_vars

(* ======================================================================= *)
(* The backup function                                                     *)
(* ======================================================================= *)
\* A blob name is the sequence of its path segments (split('/')), a segment
\* the sequence of its pieces: "database-backups/<id>.sql" is
\* << <<"database-backups">>, <id pieces> \o <<".sql">> >>.

\* strftime('%Y%m%d-%H%M%S') of second t: a fixed-width stamp
Timestamp(t) == ToString(t)

\* the second a stamp was formatted from
SecondOf(stamp) == CHOOSE t \in 0..MaxClock : Timestamp(t) = stamp

\* line 63: f"sma-backup-{ENVIRONMENT}-{timestamp}"
BackupId(t) == <<"sma-backup-", ENVIRONMENT, "-", Timestamp(t)>>

\* lines 90 and 119: f"database-backups/{backup_id}.sql"
BackupBlobName(id) == << <<"database-backups">>, id \o <<".sql">> >>

\* lines 141 and 265: f"metadata/{backup_id}.json"
MetadataBlobName(id) == << <<"metadata">>, id \o <<".json">> >>

\* lines 190 and 269: f"verification/{backup_id}.json"
VerificationBlobName(id) == << <<"verification">>, id \o <<".json">> >>

\* name.endswith('.sql')
EndsWithSql(name) ==
  LET seg == name[Len(name)] IN seg # <<>> /\ seg[Len(seg)] = ".sql"

\* 'database-backups' in file_name
MentionsBackups(name) ==
  \E i \in 1..Len(name) : \E j \in 1..Len(name[i]) : name[i][j] = "database-backups"

\* bucket.list_blobs(prefix='database-backups/')
HasBackupPrefix(name) == Len(name) >= 2 /\ name[1] = <<"database-backups">>

NotSqlPiece(piece) == piece # ".sql"

\* lines 177 and 264: file_name.split('/')[-1].replace('.sql', '')
BackupIdOf(name) == SelectSeq(name[Len(name)], NotSqlPiece)

\* the blob of that name, when the bucket holds one
Exists(bkt, name) == \E b \in bkt : b.name = name
BlobOf(bkt, name) == CHOOSE b \in bkt : b.name = name

\* blob.delete()
Delete(bkt, name) == {b \in bkt : b.name # name}

\* an upload replaces the blob of that name
Upload(bkt, blob) == Delete(bkt, blob.name) \cup {blob}

\* what upload_from_string(json.dumps(...)) writes: none of its attributes is read
JsonBlob(name) == [name |-> name]

\* blob.size of the file an export writes: empty or not
ExportedSizes == {0, 1}

(* ---------------------------- send_notification ------------------------ *)
\* lines 205-230: without a topic the call returns at once; otherwise the
\* publish is called, or something before it raises.  A run of a function
\* calls send_notification once, so the deployment (with or without a topic)
\* is drawn with the call.
PublishOutcomes ==
  UNION {IF topic = "" THEN {"skipped"} ELSE {"published", "failed"} : topic \in Topics}

\* mutant of NotificationRaises: a failed publish propagates
NotificationRaises_Propagate(outcome) == outcome = "failed"

\* lines 229-230: the except clause logs and returns
NotificationRaises(outcome) == FALSE

\* the log after send_notification(level, ...) ended with outcome
Notified(log, level, outcome) == Append(log, [level |-> level, outcome |-> outcome])

(* ---------------------------- backup_handler --------------------------- *)
\* event: without 'data', with the base64 of a JSON document, or with other data
Events == {"no data", "json", "garbage"}

\* mutant of After: the file is verified before the export is requested
After_VerifyFirst(at) ==
  CASE at = "decode" -> "create"
    [] at = "create" -> "verify"
    [] at = "verify" -> "export"
    [] at = "export" -> "notify"
    [] OTHER -> "return"

\* lines 27-48: the statement that follows statement `at` of the try block
After(at) ==
  CASE at = "decode" -> "create"
    [] at = "create" -> "export"
    [] at = "export" -> "verify"
    [] at = "verify" -> "notify"
    [] OTHER -> "return"

\* the function each statement calls
StepName(at) ==
  CASE at = "create" -> "create_database_backup"
    [] at = "export" -> "export_backup_to_storage"
    [] at = "verify" -> "verify_backup_integrity"
    [] OTHER -> "send_notification"

\* lines 50-53: the except clause, entered with exception e after the
\* notifications of log: the error notification, then e goes on to the caller
Except(log, e) ==
  \E outcome \in PublishOutcomes :
    /\ notifications' = Notified(log, "error", outcome)
    /\ result' = [status |-> "raised", backup_id |-> <<>>,
                  exc |-> IF NotificationRaises(outcome) THEN "publish failed" ELSE e]
    /\ hpc' = "idle"

\* lines 36-53: statement `at` of the run with backup id `id` ends, normally
\* (e = '') or with the exception e; done and log are the steps and the
\* notifications of the run so far.  The run goes on to the next call of a
\* service; the success notification and the except clause call none that
\* the bucket or Cloud SQL sees, and are part of the step.
EndOf(at, e, id, done, log) ==
  LET sofar == Append(done, [name |-> StepName(at), exc |-> e]) IN
  IF e # ""
  THEN steps' = sofar /\ Except(log, e)
  ELSE IF After(at) = "notify"
  THEN \E outcome \in PublishOutcomes :
         IF NotificationRaises(outcome)
         THEN /\ steps' = Append(sofar, [name |-> StepName("notify"), exc |-> "publish failed"])
              /\ Except(Notified(log, "success", outcome), "publish failed")
         ELSE /\ steps' = Append(sofar, [name |-> StepName("notify"), exc |-> ""])
              /\ notifications' = Notified(log, "success", outcome)
              /\ result' = [status |-> "success", backup_id |-> id, exc |-> ""]
              /\ hpc' = "idle"
  ELSE /\ steps' = sofar
       /\ notifications' = log
       /\ result' = NoResult
       /\ hpc' = After(at)

\* lines 21-36 and 55-81: a run starts; the message is decoded and the backup
\* run is requested; the operation is not waited for
backup_handler ==
  /\ hpc = "idle"
  /\ \E event \in Events :
       IF event = "garbage"
       THEN steps' = <<>> /\ Except(<<>>, "invalid message")
       ELSE \E accepted \in BOOLEAN :
              EndOf(After("decode"), IF accepted THEN "" ELSE "insert failed",
                     BackupId(clock), <<>>, <<>>)
  /\ backup_id' = IF hpc' = "idle" THEN <<>> ELSE BackupId(clock)
  /\ pending' = FALSE
  /\ cleaned' = NoCleanup
  /\ UNCHANGED <<sdk, clock, bucket, exports>>

\* lines 83-109: the export is requested; the operation is not waited for
export_backup_to_storage ==
  /\ hpc = "export"
  /\ \E accepted \in BOOLEAN :
       /\ EndOf("export", IF accepted THEN "" ELSE "export failed", backup_id, steps,
                 notifications)
       /\ exports' = IF accepted THEN exports \cup {BackupBlobName(backup_id)} ELSE exports
  /\ backup_id' = IF hpc' = "idle" THEN <<>> ELSE backup_id
  /\ cleaned' = NoCleanup
  /\ UNCHANGED <<sdk, clock, bucket, pending>>

\* lines 111-144: the blob is looked up now
verify_backup_integrity ==
  /\ hpc = "verify"
  /\ LET backup_blob_name == BackupBlobName(backup_id) IN
       /\ pending' = (backup_blob_name \in exports)
       /\ \E e \in IF ~Exists(bucket, backup_blob_name) THEN {"Backup file not found"}
                   ELSE IF BlobOf(bucket, backup_blob_name).size = 0
                        THEN {"Backup file is empty"}
                   ELSE {"", "upload failed"} :
            /\ EndOf("verify", e, backup_id, steps, notifications)
            /\ bucket' = IF e = ""
                         THEN Upload(bucket, JsonBlob(MetadataBlobName(backup_id)))
                         ELSE bucket
  /\ backup_id' = IF hpc' = "idle" THEN <<>> ELSE backup_id
  /\ cleaned' = NoCleanup
  /\ UNCHANGED <<sdk, clock, exports>>

(* ---------------------------- Cloud SQL and the clock ------------------ *)
\* the history of a run of backup_handler is kept while the run is in
\* progress and in the state it ends in; the next step of anything else drops it
KeepRun ==
  IF hpc = "idle"
  THEN /\ steps' = <<>>
       /\ pending' = FALSE
       /\ result' = NoResult
       /\ notifications' = <<>>
  ELSE UNCHANGED <<steps, pending, result, notifications>>

\* a second passes
Tick ==
  /\ clock < MaxClock
  /\ clock' = clock + 1
  /\ cleaned' = NoCleanup
  /\ KeepRun
  /\ UNCHANGED <<sdk, bucket, exports, hpc, backup_id>>

\* an accepted export operation finishes: Cloud SQL writes the file
ExportCompletes ==
  /\ \E uri \in exports, size \in ExportedSizes :
       /\ bucket' = Upload(bucket, [name |-> uri, time_created |-> clock, size |-> size])
       /\ exports' = exports \ {uri}
  /\ cleaned' = NoCleanup
  /\ KeepRun
  /\ UNCHANGED <<sdk, clock, hpc, backup_id>>

\* an accepted export operation ends in an error: no file is written
ExportFails ==
  /\ \E uri \in exports : exports' = exports \ {uri}
  /\ cleaned' = NoCleanup
  /\ KeepRun
  /\ UNCHANGED <<sdk, clock, bucket, hpc, backup_id>>

(* ---------------------------- verify_backup ---------------------------- *)
\* lines 146-199: the storage event of a blob of the bucket; the blob may be
\* gone when the event is handled.  The first 1000 characters hold the dump
\* header or not; the notification it sends leaves no trace in the bucket.
verify_backup ==
  /\ \E file_name \in {b.name : b \in bucket}
                      \cup {BackupBlobName(BackupId(t)) : t \in 0..clock} :
       IF ~EndsWithSql(file_name) \/ ~MentionsBackups(file_name)
       THEN UNCHANGED bucket
       ELSE \E e \in IF ~Exists(bucket, file_name) THEN {"not found"}
                     ELSE IF BlobOf(bucket, file_name).size = 0 THEN {"Backup file is empty"}
                     ELSE {"Invalid SQL dump format", "upload failed", ""} :
              bucket' = IF e = ""
                        THEN Upload(bucket, JsonBlob(VerificationBlobName(BackupIdOf(file_name))))
                        ELSE bucket
  /\ cleaned' = NoCleanup
  /\ KeepRun
  /\ UNCHANGED <<sdk, clock, exports, hpc, backup_id>>

(* ---------------------------- cleanup_old_backups ---------------------- *)
\* int(os.environ.get('BACKUP_RETENTION_COUNT', '30'))
RetentionCounts == (0 - 1)..MaxRetention

\* the listing order of list_blobs: by name; the names listed differ in their stamp
ListedBefore(a, b) == SecondOf(a[2][4]) < SecondOf(b[2][4])

\* lines 241-250: the .sql blobs of the listing, newest first; the sort is
\* stable, so blobs created in the same second keep their listing order
RECURSIVE NewestFirst(_)
NewestFirst(files) ==
  IF files = {} THEN <<>>
  ELSE LET first == CHOOSE f \in files : \A g \in files \ {f} :
                      \/ f.time_created > g.time_created
                      \/ f.time_created = g.time_created /\ ListedBefore(f.name, g.name)
       IN <<first>> \o NewestFirst(files \ {first})

BackupFiles(bkt) ==
  NewestFirst({b \in bkt : HasBackupPrefix(b.name) /\ EndsWithSql(b.name)})

\* s[n:] of Python
SliceFrom(s, n) ==
  LET start == IF n < 0 THEN (IF Len(s) + n < 0 THEN 0 ELSE Len(s) + n)
               ELSE IF n > Len(s) THEN Len(s) ELSE n
  IN SubSeq(s, start + 1, Len(s))

\* mutant of FilesToDelete: the newest retention_count files are deleted
FilesToDelete_Newest(backup_files, retention_count) ==
  IF Len(backup_files) > retention_count
  THEN SubSeq(backup_files, 1, Len(backup_files) - Len(SliceFrom(backup_files, retention_count)))
  ELSE <<>>

\* lines 255-256
FilesToDelete(backup_files, retention_count) ==
  IF Len(backup_files) > retention_count
  THEN SliceFrom(backup_files, retention_count)
  ELSE <<>>

\* lines 258-271: the blobs the loop deletes, in order
RECURSIVE Deletions(_)
Deletions(files) ==
  IF files = <<>> THEN <<>>
  ELSE LET file_name == files[1].name
           id == BackupIdOf(file_name)
       IN <<file_name, MetadataBlobName(id), VerificationBlobName(id)>>
          \o Deletions(Tail(files))

\* the bucket after the first k deletions
RECURSIVE DeleteFirst(_, _, _)
DeleteFirst(bkt, names, k) ==
  IF k = 0 THEN bkt ELSE DeleteFirst(Delete(bkt, names[1]), Tail(names), k - 1)

\* lines 232-277: a call of the storage API may raise at any point of the
\* loop; the exception is logged and notified as a warning, which leaves no
\* trace in the bucket
cleanup_old_backups ==
  /\ \E retention_count \in RetentionCounts, failed \in BOOLEAN :
       LET files_to_delete == FilesToDelete(BackupFiles(bucket), retention_count)
           names == Deletions(files_to_delete)
       IN
       \E k \in 0..Len(names) :
         /\ ~failed => k = Len(names)
         /\ bucket' = DeleteFirst(bucket, names, k)
         /\ cleaned' = [ran |-> TRUE, retention_count |-> retention_count, raised |-> failed,
                        deleted |-> IF failed THEN k ELSE Len(files_to_delete)]
  /\ KeepRun
  /\ UNCHANGED <<sdk, clock, exports, hpc, backup_id>>

(* ---------------------------- the specification ------------------------ *)
\* the function is deployed; no SDK client runs
BackupInit ==
  /\ config = [retry_attempts |-> 0, retry_delay |-> 1, api_key |-> NoneStr]
  /\ tokens = [c \in Clients |-> 0]
  /\ heap = [o \in Clients |-> NoObj]
  /\ stack = <<>>
  /\ ret = NoRet
  /\ cur = [op |-> "", c |-> 0]
  /\ lastMR = NoFrame
  /\ lastCall = NoCall
  /\ nrefresh = 0
  /\ refreshed = Missing
  /\ staleTok = [c \in Clients |-> Missing]
  /\ loginTok = [c \in Clients |-> Missing]
  /\ BackupOff

\* the runs of backup_handler, Cloud SQL and the clock
BackupNext ==
  \/ backup_handler
  \/ export_backup_to_storage
  \/ verify_backup_integrity
  \/ Tick
  \/ ExportCompletes
  \/ ExportFails

BackupSpec == BackupInit /\ [][BackupNext]_vars

\* what the run of second t has left in the bucket: nothing, or the exported
\* file, created at t or later, with its metadata when the run verified it
BlobsOfRun(t) ==
  LET id == BackupId(t)
      file(c, size) == [name |-> BackupBlobName(id), time_created |-> c, size |-> size]
  IN {{}}
     \cup {{file(c, size)} : c \in t..MaxClock, size \in ExportedSizes}
     \cup {{file(c, 1), JsonBlob(MetadataBlobName(id))} : c \in t..MaxClock}

\* the buckets the runs of backup_handler leave
Buckets ==
  {UNION {f[t] : t \in 0..MaxClock} :
     f \in {g \in [0..MaxClock -> UNION {BlobsOfRun(t) : t \in 0..MaxClock}] :
              \A t \in 0..MaxClock : g[t] \in BlobsOfRun(t)}}

\* the functions that work on the bucket, started on any bucket the runs
\* leave, with no run and no export in progress
StorageInit ==
  /\ config = [retry_attempts |-> 0, retry_delay |-> 1, api_key |-> NoneStr]
  /\ tokens = [c \in Clients |-> 0]
  /\ heap = [o \in Clients |-> NoObj]
  /\ stack = <<>>
  /\ ret = NoRet
  /\ cur = [op |-> "", c |-> 0]
  /\ lastMR = NoFrame
  /\ lastCall = NoCall
  /\ nrefresh = 0
  /\ refreshed = Missing
  /\ staleTok = [c \in Clients |-> Missing]
  /\ loginTok = [c \in Clients |-> Missing]
  /\ clock = MaxClock
  /\ bucket \in Buckets
  /\ exports = {}
  /\ hpc = "idle"
  /\ backup_id = <<>>
  /\ steps = <<>>
  /\ pending = FALSE
  /\ result = NoResult
  /\ notifications = <<>>
  /\ cleaned = NoCleanup

StorageNext ==
  \/ verify_backup
  \/ cleanup_old_backups

StorageSpec == StorageInit /\ [][StorageNext]_vars

(* ======================================================================= *)
(* The claims                                                              *)
(* ======================================================================= *)
\* a public operation has returned or raised to its caller
Done == Idle /\ ret.kind # "none"

\* the operation's own request has finished
Requested == lastMR.fn = "_make_request"

\* the _make_request frames in progress, and the finished one of the operation
Frames == {stack[i] : i \in {j \in 1..Len(stack) : stack[j].fn = "_make_request"}}
          \cup (IF Requested THEN {lastMR} ELSE {})

\* a call of session.request is made in this step
Called == lastCall' # lastCall /\ lastCall' # NoCall

IsNetworkError(res) == res.kind = "exc" /\ res.code = "NETWORK_ERROR"

\* C1 (as claimed): an operation (other than refresh_token itself) whose request
\* received HTTP 401 while a refresh token was stored has issued exactly one
\* request to /auth/refresh when it ends, whatever the server answered to it.
C1_ExactlyOneRefreshRequest ==
  (Done /\ Requested /\ cur.op # "refresh_token" /\ lastMR.hadTokens) => nrefresh = 1

\* C2: once the refresh triggered by a 401 has succeeded the original request
\* is re-issued exactly once, to the same method and URL, with Authorization:
\* Bearer <token of the refresh answer>; no invocation of _make_request calls
\* refresh_token() twice or re-issues twice, also when the re-issued request
\* is answered 401.
C2_ReissuedOnceWithNewToken ==
  /\ \A f \in Frames :
       /\ f.nrefreshCalls <= 1
       /\ f.nreissue <= 1
       /\ f.nreissue = 1 => f.refreshOk
  /\ Requested =>
       /\ lastMR.refreshOk => lastMR.nreissue = 1
       /\ lastMR.nreissue = 1 =>
            /\ lastCall.reissue
            /\ lastCall.ep = lastMR.ep
            /\ lastCall.c = lastMR.c
            /\ lastMR.newToken \in ServerTokens
            /\ lastCall.auth = Bearer(lastMR.newToken)

\* C2 witness: the re-issued request was answered 401 and that answer was final
C2_Witness ==
  /\ Done
  /\ Requested
  /\ lastMR.nreissue = 1
  /\ ret.kind = "exc"
  /\ ret.status_code = 401
  /\ HasTokens(cur.c)
  /\ lastCall.auth = Bearer("t2")

\* C3: when the refresh triggered by a 401 fails, the token pair is cleared and
\* the error the caller gets is the one mapped from the original 401 response.
C3_RefreshFailureSurfacesOriginal ==
  (Requested /\ lastMR.refreshFailed) =>
    /\ tokens[lastMR.c] = 0
    /\ lastMR.response.status = 401
    /\ lastMR.result = MapError(lastMR.response)
    /\ lastMR.result.status_code = 401
    /\ Done => ret = lastMR.result

\* C3 witness: the refresh request failed after its retries and the caller got
\* the 401 error with the code of the original response
C3_Witness ==
  /\ Done
  /\ Requested
  /\ lastMR.refreshFailed
  /\ lastMR.response.error.code = "TOKEN_EXPIRED"
  /\ ret.kind = "exc"
  /\ ret.code = "TOKEN_EXPIRED"
  /\ ret.status_code = 401
  /\ lastCall.ep = <<"POST", "/auth/refresh">>
  /\ lastCall.rid[2] = config.retry_attempts
  /\ config.retry_attempts > 0

\* C4 (as claimed): after a refresh attempt of a client has failed, no request of
\* that client carries Authorization: Bearer with the access token it held then,
\* until login, register or set_tokens (or a successful refresh) replaces it.
C4_NoStaleBearerAfterFailedRefresh ==
  [][(/\ Called
      /\ Truthy(staleTok[lastCall'.c])
      /\ lastCall'.ep \notin {<<"POST", "/auth/login">>, <<"POST", "/auth/register">>})
       => lastCall'.auth # Bearer(staleTok[lastCall'.c])]_vars

\* C5: an invocation of _make_request whose transport calls all fail has made
\* exactly retry_attempts + 1 calls when it raises NETWORK_ERROR, which is
\* retryable; one that gets a response at attempt j has made exactly j + 1 calls.
C5_TransportAttempts ==
  /\ \A f \in Frames :
       /\ f.nsent <= config.retry_attempts + 1
       /\ f.pc = "send" => f.nsent = f.retry_count
       /\ f.pc = "refreshing" => f.nsent = f.retry_count + 1
  /\ Requested =>
       IF IsNetworkError(lastMR.result)
       THEN lastMR.nsent = config.retry_attempts + 1 /\ lastMR.result.retryable
       ELSE lastMR.nsent = lastMR.retry_count + 1 /\ lastMR.retry_count <= config.retry_attempts

\* C5 witness: NETWORK_ERROR after three calls
C5_Witness ==
  /\ Done
  /\ Requested
  /\ IsNetworkError(ret)
  /\ lastMR.nsent = 3
  /\ config.retry_attempts = 2

\* C6: the sleep after failed attempt k is retry_delay * 2^k: the first is
\* retry_delay, each next one is twice the one before, and there are at most
\* retry_attempts of them, exactly retry_attempts when NETWORK_ERROR is raised
\* (none after the last failed attempt).
C6_BackoffDelays ==
  /\ \A f \in Frames :
       /\ Len(f.sleeps) = f.retry_count
       /\ Len(f.sleeps) <= config.retry_attempts
       /\ Len(f.sleeps) >= 1 => f.sleeps[1] = config.retry_delay
       /\ \A k \in 2..Len(f.sleeps) : f.sleeps[k] = 2 * f.sleeps[k - 1]
  /\ (Requested /\ IsNetworkError(lastMR.result)) =>
       /\ Len(lastMR.sleeps) = config.retry_attempts
       /\ Len(lastMR.sleeps) = lastMR.nsent - 1

\* C6 witness: two sleeps, the second twice the first, then NETWORK_ERROR
C6_Witness ==
  /\ Requested
  /\ IsNetworkError(lastMR.result)
  /\ lastMR.sleeps = <<2, 4>>

\* C7: when login or register returns, the client holds the token t of the
\* answer, and every request it sends carries Authorization: Bearer t until the
\* token pair is changed by login, register, refresh, set_tokens or logout.
C7_BearerAfterLogin ==
  /\ [](( /\ Done
          /\ cur.op \in {"login", "register"}
          /\ ret.kind = "value")
        => /\ HasTokens(cur.c)
           /\ loginTok[cur.c] \in ServerTokens
           /\ AccessToken(cur.c) = loginTok[cur.c])
  /\ [][(Called /\ loginTok[lastCall'.c] # Missing)
          => lastCall'.auth = Bearer(loginTok[lastCall'.c])]_vars

\* C7 witness: a request after login carries the token of the login answer,
\* although an API key is configured
C7_Witness ==
  /\ cur.op = "get_posts"
  /\ loginTok[cur.c] = "t2"
  /\ lastCall.auth = Bearer("t2")
  /\ lastCall.ep = <<"GET", "/posts">>
  /\ config.api_key = "k1"

\* C8: when logout has returned or raised, the token pair is cleared.
C8_LogoutClearsTokens ==
  (Done /\ cur.op = "logout") => tokens[cur.c] = 0

\* C8 witness: logout of an authenticated client raised NETWORK_ERROR after all
\* retries
C8_Witness ==
  /\ Done
  /\ cur.op = "logout"
  /\ IsNetworkError(ret)
  /\ lastMR.nsent = 3
  /\ lastCall.auth = Bearer("t1")
  /\ tokens[cur.c] = 0

\* C9 (as claimed): logout returns normally when its request fails.
C9_LogoutSwallowsFailure ==
  (Done /\ cur.op = "logout" /\ Requested /\ lastMR.result.kind = "exc")
    => ret.kind = "value"

\* C9 (amended): logout raises the error of its failed request to the caller,
\* after clearing the token pair; it returns None when the request succeeds.
C9_LogoutPropagatesFailure ==
  (Done /\ cur.op = "logout" /\ Requested) =>
    /\ tokens[cur.c] = 0
    /\ IF lastMR.result.kind = "exc" THEN ret = lastMR.result ELSE ret = RetNone

\* C9 witness: logout raised the error of the 400 answer
C9_Witness ==
  /\ Done
  /\ cur.op = "logout"
  /\ ret.kind = "exc"
  /\ ret.status_code = 400
  /\ ret.code = "VALIDATION_ERROR"
  /\ tokens[cur.c] = 0

\* the operations of the claim and their error codes
RequestOps ==
  {"login", "register", "refresh_token", "get_posts", "get_post", "create_post",
   "update_post", "delete_post", "publish_post", "create_bulk_posts", "get_analytics",
   "connect_platform", "disconnect_platform", "check_health", "get_current_user"}

ErrorCodeOf(op) ==
  CASE op = "login" -> "LOGIN_FAILED"
    [] op = "register" -> "REGISTRATION_FAILED"
    [] op = "refresh_token" -> "TOKEN_REFRESH_FAILED"
    [] op = "get_posts" -> "POSTS_FETCH_FAILED"
    [] op = "get_post" -> "POST_NOT_FOUND"
    [] op = "create_post" -> "POST_CREATION_FAILED"
    [] op = "update_post" -> "POST_UPDATE_FAILED"
    [] op = "delete_post" -> "POST_DELETION_FAILED"
    [] op = "publish_post" -> "POST_PUBLISH_FAILED"
    [] op = "create_bulk_posts" -> "BULK_POST_CREATION_FAILED"
    [] op = "get_analytics" -> "ANALYTICS_FETCH_FAILED"
    [] op = "connect_platform" -> "PLATFORM_CONNECTION_FAILED"
    [] op = "disconnect_platform" -> "PLATFORM_DISCONNECTION_FAILED"
    [] op = "check_health" -> "HEALTH_CHECK_FAILED"
    [] op = "get_current_user" -> "USER_INFO_FAILED"

\* the operation's request ended with an HTTP-success response
GotEnvelope == Done /\ cur.op \in RequestOps /\ Requested /\ lastMR.result.kind = "value"

RaisedOpError == ret.kind = "exc" /\ ret.type = "SMAError" /\ ret.code = ErrorCodeOf(cur.op)

\* C10 (as claimed): for each of the fifteen operations an HTTP-success response
\* with success:false or without a data field makes it raise its error code.
C10_FailedEnvelopeRaises ==
  (/\ GotEnvelope
   /\ \/ ~lastMR.result.data.success
      \/ lastMR.result.data.data.kind = "missing")
    => RaisedOpError

\* the operations that do not look at the data field
DataOptionalOps == {"get_posts", "delete_post", "disconnect_platform"}

\* C10 (amended): success:false makes each of the fifteen operations raise its
\* error code; a missing data field does so for all of them except get_posts,
\* delete_post and disconnect_platform, which do not raise when success is true.
C10_FailedEnvelopeRaisesUnlessDataOptional ==
  GotEnvelope =>
    /\ ~lastMR.result.data.success => RaisedOpError
    /\ (cur.op \notin DataOptionalOps /\ lastMR.result.data.data.kind = "missing")
         => RaisedOpError
    /\ (cur.op \in DataOptionalOps /\ lastMR.result.data.success) => ret.kind = "value"

\* C10 witness: get_post raised POST_NOT_FOUND on {success: true} without data
C10_Witness ==
  /\ GotEnvelope
  /\ cur.op = "get_post"
  /\ lastMR.result.data.success
  /\ lastMR.result.data.data.kind = "missing"
  /\ ret.kind = "exc"
  /\ ret.code = "POST_NOT_FOUND"

\* the operation's request ended with the envelope {success: false,
\* error: {code: C, retryable: R}} as the response that was parsed
GotErrorEnvelope ==
  /\ Done
  /\ cur.op \in RequestOps
  /\ Requested
  /\ lastMR.final.json
  /\ ~lastMR.final.success
  /\ lastMR.final.error.code \notin {Missing, "TOKEN_EXPIRED"}
  /\ lastMR.final.error.retryable # Missing

RaisedEnvelopeError ==
  /\ ret.kind = "exc"
  /\ ret.code = lastMR.final.error.code
  /\ ret.retryable = (lastMR.final.error.retryable = "true")

C12_OneCredentialPerCall ==
  [][Called =>
       LET c == lastCall'.c
           present == HasTokens(c) /\ Truthy(AccessToken(c))
       IN /\ lastCall'.auth = IF present THEN Bearer(AccessToken(c)) ELSE NoHeader
          /\ lastCall'.key = IF ~present /\ Truthy(config.api_key)
                             THEN config.api_key ELSE NoneStr
          /\ ~(lastCall'.auth # NoHeader /\ lastCall'.key # NoneStr)]_vars

\* C13 (as claimed): when the refresh triggered by the 401 of an operation's
\* request succeeded, the token pair is still set when the operation ends
\* (logout apart), whatever happened to the re-issued request.
C13_TokensKeptAfterSuccessfulRefresh ==
  (Done /\ Requested /\ cur.op # "logout" /\ lastMR.refreshOk) => HasTokens(cur.c)

\* refresh_token() returns the token pair in this step
RefreshReturns ==
  /\ ~Idle
  /\ Top.fn = "refresh_token"
  /\ Top.pc = "await"
  /\ stack' # stack
  /\ ret'.kind = "value"

\* C14: a successful refresh_token() replaces the access token by the token of
\* the refresh answer and recomputes the expiry; the client keeps the same
\* AuthTokens object and the same refresh token, also when the answer holds a
\* new refresh token; no other object changes.
C14_RefreshKeepsRefreshToken ==
  [][RefreshReturns =>
       LET o == tokens[Top.c]
       IN /\ tokens' = tokens
          /\ heap'[o].refresh_token = heap[o].refresh_token
          /\ heap'[o].access_token = ret.data.data.token
          /\ \E now \in Times : heap'[o].expires_at = now + ExpiryMinutes
          /\ \A p \in DOMAIN heap \ {o} : heap'[p] = heap[p]]_vars

\* C14 witness: refresh_token() returned after an answer with the new refresh
\* token r2 and the access token t2; the client holds t2 and still r1
C14_Witness ==
  /\ Done
  /\ cur.op = "refresh_token"
  /\ ret.kind = "value"
  /\ ret.obj = tokens[cur.c]
  /\ lastMR.final.data.token = "t2"
  /\ lastMR.final.data.refreshToken = "r2"
  /\ AccessToken(cur.c) = "t2"
  /\ RefreshToken(cur.c) = "r1"

\* C15 (as claimed): no step of an operation of one client changes the access
\* token, refresh token or expiry another client uses.
C15_ClientsIndependent ==
  [][\A d \in DOMAIN tokens :
       d # cur'.c => /\ HasTokens(d)' = HasTokens(d)
                     /\ TokensOf(d)' = TokensOf(d)]_vars

\* C16 (as claimed): every call of the transport carries an X-Request-ID, and
\* it differs from the identifier of every call already made by the
\* _make_request invocations in progress, the original of a re-issued call
\* included.
C16_RequestIdsDistinct ==
  [][Called =>
       /\ lastCall'.rid # <<>>
       /\ \A i \in 1..Len(stack) :
            (stack[i].fn = "_make_request" /\ stack[i].nsent > 0)
              => stack[i].headers.rid # lastCall'.rid]_vars

\* C17 (as claimed): a request answered with an HTTP error status, 429 and 5xx
\* included, is not re-issued by the backoff loop: no _make_request invocation
\* sleeps, retries or raises NETWORK_ERROR because of such an answer.
C17_NoBackoffOnErrorResponse ==
  \A f \in Frames : f.failedStatus = 0

\* calls of the transport made by the _make_request invocations on the stack s
RECURSIVE CallsInProgress(_)
CallsInProgress(s) ==
  IF s = <<>> THEN 0
  ELSE s[Len(s)].nsent + s[Len(s)].nreissue + CallsInProgress(SubSeq(s, 1, Len(s) - 1))

\* C18 (as claimed): the calls of the transport an operation makes are bounded
\* by a function of retry_attempts alone, whatever the server answers: the
\* request and one refresh request, each sent at most retry_attempts + 1 times,
\* and one re-issue.
C18_CallsBoundedByRetryAttempts ==
  CallsInProgress(stack) <= 2 * (config.retry_attempts + 1) + 1

\* login or register raises to its caller in this step
LoginRaises ==
  /\ Len(stack) = 1
  /\ Top.fn \in {"login", "register"}
  /\ stack' = <<>>
  /\ ret'.kind = "exc"

\* C19 (as claimed): when login or register raises, the token pair of the client
\* is what it was when the operation was called.
C19_FailedLoginKeepsTokens ==
  [][LoginRaises =>
       \A c \in DOMAIN tokens : c = Top.c => TokensOf(c)' = Top.before]_vars

\* the operations that return the data of the envelope unchanged
DataOps == {"publish_post", "create_bulk_posts", "check_health"}

\* C20 (as claimed): publish_post, create_bulk_posts and check_health return
\* normally on an HTTP-success response with success: true and a data field
\* that is present but empty.
C20_EmptyDataReturned ==
  (/\ Done
   /\ cur.op \in DataOps
   /\ Requested
   /\ lastMR.result.kind = "value"
   /\ lastMR.result.data.success
   /\ lastMR.result.data.data.kind = "empty")
    => ret.kind = "value"

(* ---------------------------- the backup function ---------------------- *)
\* a run of backup_handler has just returned or raised
Ended == hpc = "idle" /\ result.status # ""

\* the send_notification calls of the run with that level
Sent(level) == {i \in 1..Len(notifications) : notifications[i].level = level}

\* the order the claim gives
StepOrder == <<"create_database_backup", "export_backup_to_storage",
               "verify_backup_integrity", "send_notification">>

\* C21: the steps of a run of backup_handler are executed in the order
\* create_database_backup, export_backup_to_storage, verify_backup_integrity,
\* success notification; a success notification is sent and success is
\* returned only when the three earlier steps returned without raising, and
\* then no error notification is sent.
C21_StepsInOrder ==
  /\ Len(steps) <= Len(StepOrder)
  /\ \A i \in 1..Len(steps) : steps[i].name = StepOrder[i]
  /\ (Sent("success") # {} \/ result.status = "success") =>
       /\ Len(steps) >= 3
       /\ \A i \in 1..3 : steps[i].exc = ""
       /\ Sent("error") = {}

\* a run that published the success notification and returned success
C21_Witness ==
  /\ Ended
  /\ result.status = "success"
  /\ \E i \in Sent("success") : notifications[i].outcome = "published"

\* C22: when a step of backup_handler raises, no later step is executed,
\* send_notification('error', ...) is called exactly once and the exception of
\* the step is raised to the caller; send_notification never raises: after a
\* failed publish the run still returns success or raises the step's exception.
C22_ErrorPath ==
  /\ \A i \in 1..Len(steps) : steps[i].exc # "" => i = Len(steps)
  /\ (Ended /\ steps # <<>> /\ steps[Len(steps)].exc # "") =>
       /\ result.status = "raised"
       /\ result.exc = steps[Len(steps)].exc
       /\ Cardinality(Sent("error")) = 1
       /\ Sent("success") = {}
  /\ (Ended /\ \E i \in Sent("success") : notifications[i].outcome = "failed") =>
       result.status = "success"

\* the export raised after the backup was accepted, the verification was
\* not run and the publish of the error notification failed
C22_Witness ==
  /\ Ended
  /\ result.status = "raised"
  /\ Len(steps) = 2
  /\ steps[Len(steps)].exc # ""
  /\ \E i \in Sent("error") : notifications[i].outcome = "failed"

\* the .sql files under database-backups/
SqlFiles(bkt) == {b \in bkt : HasBackupPrefix(b.name) /\ EndsWithSql(b.name)}

\* the ids of the backups the function can name
BackupIds == {BackupId(t) : t \in 0..MaxClock}

\* the three files of the backup with that id
FilesOf(id) == {BackupBlobName(id), MetadataBlobName(id), VerificationBlobName(id)}

Smaller(a, b) == IF a < b THEN a ELSE b

\* C23: a step of cleanup_old_backups that ends without an exception, with a
\* retention count r >= 0, leaves exactly min(n, r) of the n .sql files, none
\* of them older than a deleted one; the metadata and verification files of
\* every deleted backup are gone, and every file of a retained backup stays.
C23_CleanupKeepsNewest ==
  [][(cleaned'.ran /\ ~cleaned'.raised /\ cleaned'.retention_count >= 0) =>
       LET before == SqlFiles(bucket)
           after == SqlFiles(bucket')
       IN /\ after \subseteq before
          /\ Cardinality(after) = Smaller(Cardinality(before), cleaned'.retention_count)
          /\ \A kept \in after, gone \in before \ after :
               kept.time_created >= gone.time_created
          /\ \A id \in BackupIds :
               IF Exists(before \ after, BackupBlobName(id))
               THEN \A name \in FilesOf(id) : ~Exists(bucket', name)
               ELSE Exists(after, BackupBlobName(id)) =>
                      \A name \in FilesOf(id) : Exists(bucket, name) => Exists(bucket', name)
    ]_vars

\* a cleanup has just deleted a backup with its metadata and verification
\* files and retained a newer one
C23_Witness ==
  /\ cleaned.ran
  /\ ~cleaned.raised
  /\ cleaned.retention_count >= 1
  /\ cleaned.deleted >= 1
  /\ SqlFiles(bucket) # {}
  /\ \E id \in BackupIds : \A name \in FilesOf(id) : Exists(bucket, name)

\* C24: a run of backup_handler never fails with 'Backup file not found'
\* while the export it requested is still in progress.
C24_VerifiesAfterExport ==
  ~(Ended /\ result.exc = "Backup file not found" /\ pending)
====
